---- MODULE Spec2Model ----
(***************************************************************************)
(* The two heap allocators of the repository, implicit.c and explicit.c,   *)
(* as one state machine.  The segment is a word-addressed memory (one word *)
(* is 8 bytes, the size of size_t and of a pointer); the header word, the  *)
(* prev/next link words of explicit.c and the caller's payload data all    *)
(* live in that one memory, as they do in the C program.                   *)
(*                                                                         *)
(* size_t values are kept as the representative nearest 0 of their residue *)
(* modulo 2^64 (so 2^64 - 8 is kept as -8); addition and subtraction are   *)
(* then the integer ones and the unsigned comparisons are ULt .. UGe.      *)
(***************************************************************************)
EXTENDS Integers, Sequences, FiniteSets, TLC

\* ------------------------------------------------------------ constants
HEADER_SIZE == 8
MALLOC == 1
ALIGNMENT == 8
MAX_REQUEST_SIZE == 2^30
NULL == 0
WORD == 8

\* ------------------------------------------------------------ bounds
\* The caller's arena has MaxHeapWords words; myinit is given a prefix of it.
MaxHeapWords == 7
\* The caller stores into the first MaxWriteWords words of a payload.
MaxWriteWords == 3
\* how far below zero num_freeblocks is followed under SpecDrift
MaxDrift == 1
\* The requests tried besides 0, 1 and MAX_REQUEST_SIZE + 1: one that is no
\* multiple of ALIGNMENT and one that needs most of the arena.
ReqOdd == 20
ReqBig == 40
\* a MAX_REQUEST_SIZE that admits ReqOdd and refuses ReqBig
SmallMax == 24
\* words of the wider arena of SpecWide: room for three blocks of explicit.c
WideHeapWords == 9

\* heap_start handed to myinit: page aligned, above every size the model stores
Base == 512 * WORD

\* heap_size handed to myinit: too small for both files, too small for
\* explicit.c only, and the whole arena
HeapSizes == {WORD, 2 * WORD, MaxHeapWords * WORD}
ReqSizes == {0, 1, ReqOdd, ReqBig, MAX_REQUEST_SIZE + 1}
\* what the caller stores in a payload word: zero, or data that is no address
UserVals == {0, 171}
Variants == {"implicit", "explicit"}

VARIABLES
    variant,          \* which of the two files is linked in
    max_request_size, \* the MAX_REQUEST_SIZE the build was given
    arena_words,      \* how many words the caller's arena has
    mem,              \* the arena: word index -> word
    segment_start, segment_end, segment_size,
    nused, num_freeblocks, num_usedblocks,
    first_free,       \* explicit.c only
    live,             \* caller's view: payload address -> bytes requested
    status,           \* "ok" | "fault" (wild access) | "hang" (endless loop)
                      \* | "undefined" (memcpy of overlapping ranges)
    op,               \* the last public call and its arguments
    ret               \* what it returned

vars == <<variant, max_request_size, arena_words, mem, segment_start, segment_end, segment_size, nused,
          num_freeblocks, num_usedblocks, first_free, live, status, op, ret>>

\* ------------------------------------------------------------ unsigned order
ULt(a, b) == IF (a >= 0) = (b >= 0) THEN a < b ELSE b < 0
UGt(a, b) == ULt(b, a)
UGe(a, b) == ~ULt(a, b)
ULe(a, b) == ~ULt(b, a)

\* ------------------------------------------------------------ memory
ArenaEnd == Base + arena_words * WORD
Valid(a) == a % WORD = 0 /\ a >= Base /\ a < ArenaEnd
Idx(a) == (a - Base) \div WORD

\* the allocator's mutable state, threaded through the C functions
Cur == [mem |-> mem, first_free |-> first_free, nused |-> nused,
        num_freeblocks |-> num_freeblocks, num_usedblocks |-> num_usedblocks,
        status |-> status]

\* sequencing: the value of v, then F of it (v is evaluated once)
Then(v, F(_)) == CHOOSE r \in {F(x) : x \in {v}} : TRUE

Fault(h) == [h EXCEPT !.status = IF @ = "ok" THEN "fault" ELSE @]
Hang(h) == [h EXCEPT !.status = IF @ = "ok" THEN "hang" ELSE @]

\* *a as an rvalue; a wild address is caught by ck before the value is used
rd(h, a) == IF Valid(a) THEN h.mem[Idx(a)] ELSE 0
\* an access to a: a wild address ends the run
ck(h, a) == IF Valid(a) THEN h ELSE Fault(h)
\* *a = v
wr(h, a, v) ==
    IF h.status # "ok" THEN h
    ELSE IF ~Valid(a) THEN Fault(h)
    ELSE [h EXCEPT !.mem[Idx(a)] = v]

\* struct header { size_t payload; struct header *prev; struct header *next; }
PayloadOf(b) == b
PrevOf(b) == b + WORD
NextOf(b) == b + 2 * WORD

roundup(size, multiple) == (size + multiple - 1) - ((size + multiple - 1) % multiple)
get_header(ptr) == ptr - HEADER_SIZE
get_size(h, header_ptr) == rd(h, header_ptr) - (rd(h, header_ptr) % 8)
is_malloc(h, header_ptr) == rd(h, header_ptr) % 2 = 1

\* the C function's effect on the allocator state and its return value
Res(h, r) == [h |-> h, ret |-> r]

\* ------------------------------------------------------------ explicit.c
add_freeblock(h, block) ==
    IF h.first_free = NULL
    THEN [h EXCEPT !.first_free = block]
    ELSE Then(wr(h, PrevOf(h.first_free), block), LAMBDA h1 :
         Then(wr(h1, PrevOf(block), NULL), LAMBDA h2 :
         Then(wr(h2, NextOf(block), h.first_free), LAMBDA h3 :
         [h3 EXCEPT !.first_free = block])))

remove_freeblock(h, block) ==
    IF h.status # "ok" THEN h
    ELSE
    Then(ck(ck(h, NextOf(block)), PrevOf(block)), LAMBDA h0 :
    Then(IF block = h0.first_free
         THEN [h0 EXCEPT !.first_free = rd(h0, NextOf(block))]
         ELSE h0, LAMBDA h1 :
    Then(IF rd(h1, PrevOf(block)) # NULL
         THEN wr(h1, NextOf(rd(h1, PrevOf(block))), rd(h1, NextOf(block)))
         ELSE h1, LAMBDA h2 :
    IF rd(h2, NextOf(block)) # NULL
    THEN wr(h2, PrevOf(rd(h2, NextOf(block))), rd(h2, PrevOf(block)))
    ELSE h2)))

split_block_explicit(h, old_block, size_needed) ==
    IF h.status # "ok" THEN h
    ELSE IF ~Valid(old_block) THEN Fault(h)
    ELSE
    LET old_size == get_size(h, old_block)
        total == size_needed + HEADER_SIZE
        new_block == old_block + total
    IN  IF UGe(old_size - size_needed, 2 * ALIGNMENT + HEADER_SIZE)
        THEN Then(wr(h, PayloadOf(new_block), old_size - total), LAMBDA h1 :
             Then(wr(h1, PayloadOf(old_block),
                     IF is_malloc(h1, old_block) THEN size_needed + MALLOC
                     ELSE size_needed), LAMBDA h2 :
             Then(add_freeblock(h2, new_block), LAMBDA h3 :
             [h3 EXCEPT !.num_freeblocks = @ + 1])))
        ELSE h

coalesce_block(h, block) ==
    IF h.status # "ok" THEN h
    ELSE IF ~Valid(PayloadOf(block)) \/ ~Valid(PrevOf(block)) \/ ~Valid(NextOf(block))
    THEN Fault(h)
    ELSE IF rd(h, PrevOf(block)) = NULL /\ rd(h, NextOf(block)) = NULL THEN h
    ELSE
    LET next == block + get_size(h, block) + HEADER_SIZE
    IN  IF UGe(next, segment_end) THEN h
        ELSE IF ~Valid(next) THEN Fault(h)
        ELSE IF ~is_malloc(h, next)
        THEN Then(remove_freeblock(h, next), LAMBDA h1 :
             Then(wr(h1, PayloadOf(block),
                     rd(h1, PayloadOf(block)) + get_size(h1, next) + HEADER_SIZE),
                  LAMBDA h2 :
             [h2 EXCEPT !.num_freeblocks = @ - 1]))
        ELSE h

\* The list walk of find_freeblock.  It reads only, so a walk that has taken
\* more steps than the arena has words is in a cycle and never ends.
RECURSIVE find_freeblock_from(_, _, _, _)
find_freeblock_from(h, ptr, size_needed, fuel) ==
    IF ptr = NULL THEN [h |-> h, ptr |-> NULL]
    ELSE IF fuel = 0 THEN [h |-> Hang(h), ptr |-> NULL]
    ELSE IF ~Valid(PayloadOf(ptr)) THEN [h |-> Fault(h), ptr |-> NULL]
    ELSE IF UGe(get_size(h, ptr), size_needed) THEN [h |-> h, ptr |-> ptr]
    ELSE IF ~Valid(NextOf(ptr)) THEN [h |-> Fault(h), ptr |-> NULL]
    ELSE Then(rd(h, NextOf(ptr)), LAMBDA nxt :
         find_freeblock_from(h, nxt, size_needed, fuel - 1))

find_freeblock(h, ptr, size_needed) ==
    find_freeblock_from(h, ptr, size_needed, arena_words + 1)

mymalloc_explicit(h, requested_size) ==
    IF requested_size > max_request_size \/ requested_size = 0 THEN Res(h, NULL)
    ELSE
    LET size_needed == IF requested_size > 2 * ALIGNMENT
                       THEN roundup(requested_size, ALIGNMENT)
                       ELSE 2 * ALIGNMENT
    IN  IF UGt(size_needed + h.nused, segment_size) THEN Res(h, NULL)
        ELSE
        Then(find_freeblock(h, h.first_free, size_needed), LAMBDA found :
        IF found.h.status # "ok" THEN Res(found.h, NULL)
        ELSE IF found.ptr = NULL THEN Res(h, NULL)
        ELSE
        Then(split_block_explicit(h, found.ptr, size_needed), LAMBDA h1 :
        Then(remove_freeblock(h1, found.ptr), LAMBDA h2 :
        Then(wr(h2, PayloadOf(found.ptr), rd(h2, PayloadOf(found.ptr)) + MALLOC),
             LAMBDA h3 :
        Res([h3 EXCEPT !.nused = @ + get_size(h3, found.ptr) + HEADER_SIZE,
                       !.num_usedblocks = @ + 1,
                       !.num_freeblocks = @ - 1],
            found.ptr + HEADER_SIZE)))))

myfree_explicit(h, ptr) ==
    IF ptr = NULL THEN h
    ELSE
    Then(wr(h, PayloadOf(get_header(ptr)), rd(h, PayloadOf(get_header(ptr))) - MALLOC),
         LAMBDA h1 :
    Then([h1 EXCEPT !.nused = @ - (get_size(h1, get_header(ptr)) + HEADER_SIZE),
                    !.num_usedblocks = @ - 1,
                    !.num_freeblocks = @ + 1], LAMBDA h2 :
    Then(add_freeblock(h2, get_header(ptr)), LAMBDA h3 :
    coalesce_block(h3, get_header(ptr)))))

\* memcpy(dst, src, n) on words of 8 little-endian bytes; the last word may be
\* copied in part.  When the two ranges overlap the C standard fixes no
\* result, and the run ends with status "undefined".
\* Every word the model stores is below 2^24 (sizes, arena addresses, UserVals),
\* so bytes 3..7 of a word are zero and its low k >= 3 bytes are the word.
LowBytes(w, k) == IF k >= 3 THEN w ELSE w % (256 ^ k)
MixWord(srcw, dstw, k) == LowBytes(srcw, k) + (dstw - LowBytes(dstw, k))
WordsOf(n) == (n + WORD - 1) \div WORD
CopiedWord(m, dst, src, n, i) ==
    IF (i + 1) * WORD <= n THEN m[Idx(src) + i]
    ELSE MixWord(m[Idx(src) + i], m[Idx(dst) + i], n - i * WORD)

memcpy(h, dst, src, n) ==
    IF h.status # "ok" THEN h
    ELSE IF n < 0 \/ ~Valid(dst) \/ ~Valid(src)
            \/ dst + WordsOf(n) * WORD > ArenaEnd \/ src + WordsOf(n) * WORD > ArenaEnd
    THEN Fault(h)
    ELSE IF n > 0 /\ dst < src + n /\ src < dst + n
    THEN [h EXCEPT !.status = "undefined"]
    ELSE [h EXCEPT !.mem =
            [w \in DOMAIN h.mem |->
                IF w >= Idx(dst) /\ w < Idx(dst) + WordsOf(n)
                THEN CopiedWord(h.mem, dst, src, n, w - Idx(dst))
                ELSE h.mem[w]]]

\* the loop of myrealloc: coalesce until the size of the block stops changing
RECURSIVE coalesce_loop(_, _, _, _)
coalesce_loop(h, temp, temp_size, fuel) ==
    Then(coalesce_block(h, temp), LAMBDA h1 :
    IF h1.status # "ok" THEN h1
    ELSE IF get_size(h1, temp) # temp_size
    THEN IF fuel = 0 THEN Hang(h1)
         ELSE Then(get_size(h1, temp), LAMBDA sz :
              coalesce_loop(h1, temp, sz, fuel - 1))
    ELSE h1)

\* the tail of myrealloc, from "coalesce in place" on
realloc_grow(h, old_ptr, new_size, old_size, newsize_needed) ==
    Then(coalesce_loop(h, get_header(old_ptr), old_size, arena_words + 1), LAMBDA c1 :
    IF c1.status # "ok" THEN Res(c1, NULL)
    ELSE IF UGe(get_size(c1, get_header(old_ptr)), newsize_needed)
    THEN Then(split_block_explicit(c1, get_header(old_ptr), newsize_needed), LAMBDA g1 :
         Res([g1 EXCEPT !.nused = @ + (get_size(g1, get_header(old_ptr)) - old_size)],
             old_ptr))
    ELSE Then(mymalloc_explicit(c1, new_size), LAMBDA m :
         IF m.ret = NULL THEN Res(m.h, NULL)
         ELSE Then(memcpy(m.h, m.ret, old_ptr, old_size), LAMBDA m1 :
              Then(myfree_explicit(m1, old_ptr), LAMBDA m2 :
              Res(m2, m.ret)))))

myrealloc_explicit(h, old_ptr, new_size) ==
    IF old_ptr = NULL THEN mymalloc_explicit(h, new_size)
    ELSE IF new_size = 0 THEN Res(myfree_explicit(h, old_ptr), NULL)
    ELSE IF ~Valid(get_header(old_ptr)) THEN Res(Fault(h), NULL)
    ELSE
    LET oldheader_ptr == get_header(old_ptr)
        old_size == get_size(h, oldheader_ptr)
        newsize_needed == IF new_size > 2 * ALIGNMENT
                          THEN roundup(new_size, ALIGNMENT)
                          ELSE 2 * ALIGNMENT
    IN  IF UGt(old_size, newsize_needed)
        THEN Then(split_block_explicit(h, oldheader_ptr, newsize_needed), LAMBDA s1 :
             Res([s1 EXCEPT !.nused = @ - (old_size - get_size(s1, oldheader_ptr))],
                 old_ptr))
        ELSE IF old_size = newsize_needed THEN Res(h, old_ptr)
        ELSE realloc_grow(h, old_ptr, new_size, old_size, newsize_needed)

\* the segment walk of validate_heap: "bad" when a check fails, else the counts
WalkRes(bad, free_blocks, used_blocks, st) ==
    [bad |-> bad, free |-> free_blocks, used |-> used_blocks, st |-> st]

RECURSIVE heap_walk(_, _, _, _, _, _)
heap_walk(h, block, min_size, free_blocks, used_blocks, fuel) ==
    IF ~ULt(block, segment_end) THEN WalkRes(FALSE, free_blocks, used_blocks, "ok")
    ELSE IF fuel = 0 THEN WalkRes(TRUE, free_blocks, used_blocks, "hang")
    ELSE IF UGt(h.nused, segment_size) THEN WalkRes(TRUE, free_blocks, used_blocks, "ok")
    ELSE IF ~Valid(block) THEN WalkRes(TRUE, free_blocks, used_blocks, "fault")
    ELSE IF ULt(get_size(h, block), min_size)
    THEN WalkRes(TRUE, free_blocks, used_blocks, "ok")
    ELSE Then(<<block + get_size(h, block) + HEADER_SIZE,
                IF is_malloc(h, block) THEN free_blocks ELSE free_blocks + 1,
                IF is_malloc(h, block) THEN used_blocks + 1 ELSE used_blocks>>,
              LAMBDA n : heap_walk(h, n[1], min_size, n[2], n[3], fuel - 1))

\* the free-list walk of validate_heap
RECURSIVE list_walk(_, _, _, _)
list_walk(h, temp, free_blocks, fuel) ==
    IF temp = NULL THEN WalkRes(FALSE, free_blocks, 0, "ok")
    ELSE IF fuel = 0 THEN WalkRes(TRUE, free_blocks, 0, "hang")
    ELSE IF ~Valid(PayloadOf(temp)) THEN WalkRes(TRUE, free_blocks, 0, "fault")
    ELSE IF is_malloc(h, temp) THEN WalkRes(TRUE, free_blocks, 0, "ok")
    ELSE IF ~Valid(NextOf(temp)) THEN WalkRes(TRUE, free_blocks, 0, "fault")
    ELSE Then(rd(h, NextOf(temp)), LAMBDA nxt :
         list_walk(h, nxt, free_blocks + 1, fuel - 1))

WithStatus(h, st) ==
    IF st = "fault" THEN Fault(h) ELSE IF st = "hang" THEN Hang(h) ELSE h

validate_heap_explicit(h) ==
    Then(heap_walk(h, segment_start, 2 * ALIGNMENT, 0, 0, arena_words + 1), LAMBDA w :
    IF w.st # "ok" THEN Res(WithStatus(h, w.st), FALSE)
    ELSE IF w.bad THEN Res(h, FALSE)
    ELSE IF w.used # h.num_usedblocks THEN Res(h, FALSE)
    ELSE IF w.free # h.num_freeblocks THEN Res(h, FALSE)
    ELSE Then(list_walk(h, h.first_free, 0, arena_words + 1), LAMBDA l :
         IF l.st # "ok" THEN Res(WithStatus(h, l.st), FALSE)
         ELSE IF l.bad THEN Res(h, FALSE)
         ELSE IF l.free # h.num_freeblocks THEN Res(h, FALSE)
         ELSE Res(h, TRUE)))

\* ------------------------------------------------------------ implicit.c
split_block_implicit(h, old_block, size_needed) ==
    IF h.status # "ok" THEN h
    ELSE IF ~Valid(old_block) THEN Fault(h)
    ELSE
    LET old_size == get_size(h, old_block)
        total == size_needed + HEADER_SIZE
        new_block == old_block + total
    IN  IF UGe(old_size - size_needed, HEADER_SIZE + ALIGNMENT)
        THEN Then(wr(h, PayloadOf(new_block), old_size - total), LAMBDA h1 :
             Then(wr(h1, PayloadOf(old_block), size_needed), LAMBDA h2 :
             [h2 EXCEPT !.num_freeblocks = @ + 1]))
        ELSE h

RECURSIVE find_first_free_from(_, _, _, _)
find_first_free_from(h, ptr, size_needed, fuel) ==
    IF ~ULt(ptr, segment_end) THEN [h |-> h, ptr |-> NULL]
    ELSE IF fuel = 0 THEN [h |-> Hang(h), ptr |-> NULL]
    ELSE IF ~Valid(ptr) THEN [h |-> Fault(h), ptr |-> NULL]
    ELSE IF UGe(get_size(h, ptr), size_needed) /\ ~is_malloc(h, ptr)
    THEN [h |-> h, ptr |-> ptr]
    ELSE Then(ptr + get_size(h, ptr) + HEADER_SIZE, LAMBDA nxt :
         find_first_free_from(h, nxt, size_needed, fuel - 1))

find_first_free(h, ptr, size_needed) ==
    find_first_free_from(h, ptr, size_needed, arena_words + 1)

\* mymalloc of implicit.c, but counting the bytes of the request in nused
\* before it has found a block for them
mymalloc_counts_before_search(h, requested_size) ==
    IF requested_size > max_request_size \/ requested_size = 0 THEN Res(h, NULL)
    ELSE
    LET size_needed == roundup(requested_size, ALIGNMENT)
    IN  IF UGt(size_needed + h.nused, segment_size) THEN Res(h, NULL)
        ELSE
        Then(find_first_free(h, segment_start, size_needed), LAMBDA found :
        IF found.h.status # "ok" THEN Res(found.h, NULL)
        ELSE IF found.ptr = NULL
        THEN Res([h EXCEPT !.nused = @ + size_needed + HEADER_SIZE], NULL)
        ELSE
        Then(split_block_implicit(h, found.ptr, size_needed), LAMBDA h1 :
        Then(wr(h1, PayloadOf(found.ptr), rd(h1, PayloadOf(found.ptr)) + MALLOC),
             LAMBDA h2 :
        Res([h2 EXCEPT !.nused = @ + get_size(h2, found.ptr) + HEADER_SIZE,
                       !.num_usedblocks = @ + 1,
                       !.num_freeblocks = @ - 1],
            found.ptr + HEADER_SIZE))))

mymalloc_implicit(h, requested_size) ==
    IF requested_size > max_request_size \/ requested_size = 0 THEN Res(h, NULL)
    ELSE
    LET size_needed == roundup(requested_size, ALIGNMENT)
    IN  IF UGt(size_needed + h.nused, segment_size) THEN Res(h, NULL)
        ELSE
        Then(find_first_free(h, segment_start, size_needed), LAMBDA found :
        IF found.h.status # "ok" THEN Res(found.h, NULL)
        ELSE IF found.ptr = NULL THEN Res(h, NULL)
        ELSE
        Then(split_block_implicit(h, found.ptr, size_needed), LAMBDA h1 :
        Then(wr(h1, PayloadOf(found.ptr), rd(h1, PayloadOf(found.ptr)) + MALLOC),
             LAMBDA h2 :
        Res([h2 EXCEPT !.nused = @ + get_size(h2, found.ptr) + HEADER_SIZE,
                       !.num_usedblocks = @ + 1,
                       !.num_freeblocks = @ - 1],
            found.ptr + HEADER_SIZE))))

myfree_implicit(h, ptr) ==
    IF ptr = NULL THEN h
    ELSE
    Then(wr(h, PayloadOf(get_header(ptr)), rd(h, PayloadOf(get_header(ptr))) - MALLOC),
         LAMBDA h1 :
    [h1 EXCEPT !.num_usedblocks = @ - 1,
               !.num_freeblocks = @ + 1,
               !.nused = @ - (get_size(h1, get_header(ptr)) + HEADER_SIZE)])

myrealloc_implicit(h, old_ptr, new_size) ==
    IF old_ptr = NULL THEN mymalloc_implicit(h, new_size)
    ELSE IF new_size = 0 THEN Res(myfree_implicit(h, old_ptr), NULL)
    ELSE
    Then(mymalloc_implicit(h, new_size), LAMBDA m :
    IF m.ret = NULL THEN Res(m.h, NULL)
    ELSE
    Then(ck(m.h, get_header(old_ptr)), LAMBDA h1 :
    Then(IF ULt(new_size, get_size(h1, get_header(old_ptr)))
         THEN new_size ELSE get_size(h1, get_header(old_ptr)), LAMBDA old_size :
    Then(memcpy(h1, m.ret, old_ptr, old_size), LAMBDA h2 :
    Res(myfree_implicit(h2, old_ptr), m.ret)))))

validate_heap_implicit(h) ==
    Then(heap_walk(h, segment_start, ALIGNMENT, 0, 0, arena_words + 1), LAMBDA w :
    IF w.st # "ok" THEN Res(WithStatus(h, w.st), FALSE)
    ELSE IF w.bad THEN Res(h, FALSE)
    ELSE IF w.used # h.num_usedblocks THEN Res(h, FALSE)
    ELSE IF w.free # h.num_freeblocks THEN Res(h, FALSE)
    ELSE Res(h, TRUE))

\* ------------------------------------------------------------ the program
B2I(b) == IF b THEN 1 ELSE 0
Call(name, ptr, size) == [name |-> name, ptr |-> ptr, size |-> size]
NoLive == [p \in {} |-> 0]
Drop(f, p) == [q \in DOMAIN f \ {p} |-> f[q]]
Put(f, p, n) == [q \in DOMAIN f \cup {p} |-> IF q = p THEN n ELSE f[q]]

StartIn(variants, max, words) ==
    /\ variant \in variants
    /\ max_request_size = max
    /\ arena_words = words
    /\ mem = [w \in 0..(words - 1) |-> 0]
    /\ segment_start = NULL /\ segment_end = NULL /\ segment_size = 0
    /\ nused = 0 /\ num_freeblocks = 0 /\ num_usedblocks = 0
    /\ first_free = NULL
    /\ live = NoLive
    /\ status = "ok"
    /\ op = Call("none", NULL, 0)
    /\ ret = 0

Start(variants, max) == StartIn(variants, max, MaxHeapWords)

Init == Start(Variants, MAX_REQUEST_SIZE)

\* A call is made on an initialised allocator that is still running.
Ready == status = "ok" /\ segment_start # NULL

\* a call returned h: the allocator state becomes h; a call that faulted or
\* hung returns nothing, and only status records it
Becomes(h) ==
    /\ status' = h.status
    /\ IF h.status = "ok"
       THEN /\ mem' = h.mem
            /\ first_free' = h.first_free
            /\ nused' = h.nused
            /\ num_freeblocks' = h.num_freeblocks
            /\ num_usedblocks' = h.num_usedblocks
       ELSE UNCHANGED <<mem, first_free, nused, num_freeblocks, num_usedblocks>>

\* a myinit that asks of both files what implicit.c asks
min_heap_of_implicit == HEADER_SIZE + ALIGNMENT

min_heap == IF variant = "explicit" THEN HEADER_SIZE + ALIGNMENT * 2
            ELSE HEADER_SIZE + ALIGNMENT

myinit(heap_start, heap_size) ==
    /\ status = "ok"
    /\ op' = Call("myinit", heap_start, heap_size)
    /\ IF heap_size < min_heap
       THEN /\ ret' = B2I(FALSE)
            /\ UNCHANGED <<variant, max_request_size, arena_words, mem, segment_start, segment_end, segment_size,
                           nused, num_freeblocks, num_usedblocks, first_free, live,
                           status>>
       ELSE /\ segment_start' = heap_start
            /\ segment_end' = heap_start + heap_size
            /\ segment_size' = heap_size
            /\ nused' = 0
            /\ num_usedblocks' = 0
            /\ num_freeblocks' = 1
            /\ first_free' = IF variant = "explicit" THEN heap_start ELSE first_free
            /\ mem' = IF variant = "explicit"
                      THEN [mem EXCEPT ![Idx(PayloadOf(heap_start))] = heap_size - HEADER_SIZE,
                                       ![Idx(PrevOf(heap_start))] = NULL,
                                       ![Idx(NextOf(heap_start))] = NULL]
                      ELSE [mem EXCEPT ![Idx(PayloadOf(heap_start))] = heap_size - HEADER_SIZE]
            /\ live' = NoLive
            /\ ret' = B2I(TRUE)
            /\ UNCHANGED <<variant, max_request_size, arena_words, status>>

mymalloc(requested_size) ==
    /\ Ready
    /\ \E r \in {IF variant = "explicit" THEN mymalloc_explicit(Cur, requested_size)
                 ELSE mymalloc_implicit(Cur, requested_size)} :
           /\ Becomes(r.h)
           /\ op' = Call("mymalloc", NULL, requested_size)
           /\ ret' = IF r.h.status = "ok" THEN r.ret ELSE ret
           /\ live' = IF r.h.status = "ok" /\ r.ret # NULL
                      THEN Put(live, r.ret, requested_size) ELSE live
    /\ UNCHANGED <<variant, max_request_size, arena_words, segment_start, segment_end, segment_size>>

myfree(ptr) ==
    /\ Ready
    /\ \E h \in {IF variant = "explicit" THEN myfree_explicit(Cur, ptr)
                 ELSE myfree_implicit(Cur, ptr)} :
           /\ Becomes(h)
           /\ op' = Call("myfree", ptr, 0)
           /\ ret' = IF h.status = "ok" THEN NULL ELSE ret
           /\ live' = IF h.status = "ok" THEN Drop(live, ptr) ELSE live
    /\ UNCHANGED <<variant, max_request_size, arena_words, segment_start, segment_end, segment_size>>

myrealloc(old_ptr, new_size) ==
    /\ Ready
    /\ \E r \in {IF variant = "explicit"
                 THEN myrealloc_explicit(Cur, old_ptr, new_size)
                 ELSE myrealloc_implicit(Cur, old_ptr, new_size)} :
           /\ Becomes(r.h)
           /\ op' = Call("myrealloc", old_ptr, new_size)
           /\ ret' = IF r.h.status = "ok" THEN r.ret ELSE ret
           /\ live' = IF r.h.status # "ok" THEN live
                      ELSE IF r.ret # NULL THEN Put(Drop(live, old_ptr), r.ret, new_size)
                      ELSE IF new_size = 0 THEN Drop(live, old_ptr)
                      ELSE live
    /\ UNCHANGED <<variant, max_request_size, arena_words, segment_start, segment_end, segment_size>>

validate_heap ==
    /\ Ready
    /\ \E r \in {IF variant = "explicit" THEN validate_heap_explicit(Cur)
                 ELSE validate_heap_implicit(Cur)} :
           /\ Becomes(r.h)
           /\ op' = Call("validate_heap", NULL, 0)
           /\ ret' = IF r.h.status = "ok" THEN B2I(r.ret) ELSE ret
    /\ UNCHANGED <<variant, max_request_size, arena_words, segment_start, segment_end, segment_size, live>>

\* the caller stores v in word i of a live payload, within the bytes it asked for
UserWrite(ptr, i, v) ==
    /\ Ready
    /\ (i + 1) * WORD <= live[ptr]
    /\ Valid(ptr + i * WORD)
    /\ mem' = [mem EXCEPT ![Idx(ptr + i * WORD)] = v]
    /\ op' = Call("write", ptr, i)
    /\ ret' = v
    /\ UNCHANGED <<variant, max_request_size, arena_words, segment_start, segment_end, segment_size, nused,
                   num_freeblocks, num_usedblocks, first_free, live, status>>

\* The model follows the allocator only while its counters are in the range a
\* heap of this size allows: broken accounting can drift without bound.
CountersInRange ==
    /\ ULe(nused, segment_size)
    /\ num_usedblocks \in 0..MaxHeapWords
    /\ num_freeblocks \in 0..MaxHeapWords

Next ==
    \/ \E heap_size \in HeapSizes : myinit(Base, heap_size)
    \/ CountersInRange /\ \E requested_size \in ReqSizes : mymalloc(requested_size)
    \/ CountersInRange /\ \E ptr \in DOMAIN live \cup {NULL} : myfree(ptr)
    \/ CountersInRange /\ \E old_ptr \in DOMAIN live \cup {NULL}, new_size \in ReqSizes :
          myrealloc(old_ptr, new_size)
    \/ CountersInRange /\ validate_heap
    \/ CountersInRange /\ \E ptr \in DOMAIN live, i \in 0..(MaxWriteWords - 1), v \in UserVals :
          UserWrite(ptr, i, v)

Spec == Init /\ [][Next]_vars

\* explicit.c alone, its callers leaving the payloads as they find them, and
\* followed while num_freeblocks has fallen at most MaxDrift below zero
DriftInRange ==
    /\ ULe(nused, segment_size)
    /\ num_usedblocks \in 0..MaxHeapWords
    /\ num_freeblocks \in (0 - MaxDrift)..MaxHeapWords

InitDrift == Start({"explicit"}, MAX_REQUEST_SIZE)

NextDrift ==
    \/ \E heap_size \in HeapSizes : myinit(Base, heap_size)
    \/ DriftInRange /\ \E requested_size \in ReqSizes : mymalloc(requested_size)
    \/ DriftInRange /\ \E ptr \in DOMAIN live \cup {NULL} : myfree(ptr)
    \/ DriftInRange /\ \E old_ptr \in DOMAIN live \cup {NULL}, new_size \in ReqSizes :
          myrealloc(old_ptr, new_size)
    \/ DriftInRange /\ validate_heap

SpecDrift == InitDrift /\ [][NextDrift]_vars

\* a build whose MAX_REQUEST_SIZE is below the size of the heap, as a heap of
\* more than 2^30 bytes is to the MAX_REQUEST_SIZE of 2^30
InitSmallMax == Start(Variants, SmallMax)
SpecSmallMax == InitSmallMax /\ [][Next]_vars

\* explicit.c alone in an arena of WideHeapWords words, all of it handed to
\* myinit, for requests of one minimum block or one block of ReqOdd bytes, its
\* callers leaving the payloads as they find them
WideReqSizes == {1, ReqOdd}
InitWide == StartIn({"explicit"}, MAX_REQUEST_SIZE, WideHeapWords)

NextWide ==
    \/ myinit(Base, WideHeapWords * WORD)
    \/ CountersInRange /\ \E requested_size \in WideReqSizes : mymalloc(requested_size)
    \/ CountersInRange /\ \E ptr \in DOMAIN live : myfree(ptr)
    \/ CountersInRange /\ \E old_ptr \in DOMAIN live, new_size \in WideReqSizes :
          myrealloc(old_ptr, new_size)
    \/ CountersInRange /\ validate_heap

SpecWide == InitWide /\ [][NextWide]_vars

\* ------------------------------------------------------------ what the claims speak of
\* a public call has returned on an initialised allocator
Returned == status = "ok" /\ segment_start # NULL
Explicit == variant = "explicit"
AllocatorCall(name) == name \in {"mymalloc", "myfree", "myrealloc"}

variant_min == IF Explicit THEN 2 * ALIGNMENT ELSE ALIGNMENT
\* N of the spec: the payload size a request of R bytes needs
Needed(R) == IF roundup(R, ALIGNMENT) > variant_min THEN roundup(R, ALIGNMENT)
             ELSE variant_min

\* the headers met walking heap h from block b, stepping by HEADER_SIZE + size
RECURSIVE BlocksFrom(_, _, _)
BlocksFrom(h, b, fuel) ==
    IF fuel = 0 \/ ~ULt(b, segment_end) \/ ~Valid(b) THEN <<>>
    ELSE Then(b + get_size(h, b) + HEADER_SIZE, LAMBDA n :
         <<b>> \o BlocksFrom(h, n, fuel - 1))

\* where that walk ends: the first address at or past segment_end, -1 if none
RECURSIVE WalkEndFrom(_, _, _)
WalkEndFrom(h, b, fuel) ==
    IF ~ULt(b, segment_end) THEN b
    ELSE IF fuel = 0 \/ ~Valid(b) THEN -1
    ELSE Then(b + get_size(h, b) + HEADER_SIZE, LAMBDA n : WalkEndFrom(h, n, fuel - 1))

Range(seq) == {seq[i] : i \in DOMAIN seq}
Blocks == BlocksFrom(Cur, segment_start, arena_words + 1)
WalkEnd == WalkEndFrom(Cur, segment_start, arena_words + 1)
UsedBlocks == {b \in Range(Blocks) : is_malloc(Cur, b)}
FreeBlocks == {b \in Range(Blocks) : ~is_malloc(Cur, b)}

RECURSIVE SumOver(_, _)
SumOver(S, f) ==
    IF S = {} THEN 0
    ELSE Then(CHOOSE x \in S : TRUE, LAMBDA x : f[x] + SumOver(S \ {x}, f))

\* the nodes met following next from node in heap h
RECURSIVE ListFrom(_, _, _)
ListFrom(h, node, fuel) ==
    IF node = NULL \/ fuel = 0 \/ ~Valid(node) \/ ~Valid(NextOf(node)) THEN <<>>
    ELSE Then(rd(h, NextOf(node)), LAMBDA n : <<node>> \o ListFrom(h, n, fuel - 1))

FreeList == ListFrom(Cur, first_free, arena_words + 1)
\* the walk of the list came to a null next
ListEnds(L) == IF L = <<>> THEN first_free = NULL
               ELSE rd(Cur, NextOf(L[Len(L)])) = NULL

\* the words of the payload of the live block at ptr, by its header in heap h
PayloadWords(h, ptr) ==
    {Idx(a) : a \in {b \in {ptr + k * WORD : k \in 0..arena_words} :
                       Valid(b) /\ b < ptr + get_size(h, get_header(ptr))}}

\* ------------------------------------------------------------ claims
\* C1: the payloads of the live allocations are pairwise disjoint, and
\* mymalloc and myrealloc never return an address that is live already
\* (myrealloc may return the block it was given).
LiveDisjoint ==
    \A p \in DOMAIN live : \A q \in DOMAIN live :
        p # q => \/ p + get_size(Cur, get_header(p)) <= q
                 \/ q + get_size(Cur, get_header(q)) <= p
ReturnsFresh ==
    (op'.name \in {"mymalloc", "myrealloc"} /\ status' = "ok" /\ ret' # NULL)
        => ret' \notin (DOMAIN live \ {op'.ptr})
C1_NonOverlap == [](Returned => LiveDisjoint) /\ [][ReturnsFresh]_vars

\* C2: after any sequence of valid calls validate_heap() returns true.
ValidateNow == IF Explicit THEN validate_heap_explicit(Cur) ELSE validate_heap_implicit(Cur)
C2_ValidatorFixedPoint == Returned => (ValidateNow.h.status = "ok" /\ ValidateNow.ret)

\* C3: nused is the sum of payload size + HEADER_SIZE over the allocated
\* blocks, and is at most segment_size.
AllocatedBytes == SumOver(UsedBlocks, [b \in UsedBlocks |-> get_size(Cur, b) + HEADER_SIZE])
C3_ByteAccounting == Returned => (nused = AllocatedBytes /\ ULe(nused, segment_size))

\* C4: explicit.c: the free list is exactly the free blocks of the segment,
\* acyclic, num_freeblocks long, with symmetric links and a null prev at the
\* head; first_free is null iff there is no free block.
FreeListSound ==
    LET L == FreeList
    IN  /\ ListEnds(L)
        /\ Cardinality(Range(L)) = Len(L)
        /\ Range(L) = FreeBlocks
        /\ Len(L) = num_freeblocks
        /\ \A i \in DOMAIN L :
               rd(Cur, PrevOf(L[i])) = IF i = 1 THEN NULL ELSE L[i - 1]
        /\ (first_free = NULL <=> FreeBlocks = {})
C4_FreeListSound == (Explicit /\ Returned) => FreeListSound

\* C5: explicit.c: a call of the allocator on other pointers writes no word of
\* the payload of a block that stays allocated, and no live block is on the
\* free list.
PayloadKept(p) == \A w \in PayloadWords(Cur, p) : mem'[w] = mem[w]
OthersUntouched ==
    (Explicit /\ AllocatorCall(op'.name) /\ status' = "ok")
        => \A p \in (DOMAIN live \cap DOMAIN live') \ {op'.ptr, ret'} : PayloadKept(p)
LiveNotListed == \A p \in DOMAIN live : get_header(p) \notin Range(FreeList)
C5_UserOwnedPayload ==
    [][OthersUntouched]_vars /\ []((Explicit /\ Returned) => LiveNotListed)

\* C6: a successful myrealloc(p, R) with p live and R > 0 returns q whose first
\* min(old payload size of p, R) bytes are the bytes p had before the call.
KeptBytes(p, R) == IF ULt(R, get_size(Cur, get_header(p))) THEN R
                   ELSE get_size(Cur, get_header(p))
SameBytes(p, q, n) ==
    \A i \in 0..(WordsOf(n) - 1) :
        /\ Valid(p + i * WORD) /\ Valid(q + i * WORD)
        /\ IF (i + 1) * WORD <= n
           THEN mem'[Idx(q) + i] = mem[Idx(p) + i]
           ELSE LowBytes(mem'[Idx(q) + i], n - i * WORD)
                    = LowBytes(mem[Idx(p) + i], n - i * WORD)
ReallocKeepsContents ==
    (/\ op'.name = "myrealloc" /\ status' = "ok"
     /\ op'.ptr \in DOMAIN live /\ op'.size > 0 /\ ret' # NULL)
        => SameBytes(op'.ptr, ret', KeptBytes(op'.ptr, op'.size))
C6_ContentsPreserved == [][ReallocKeepsContents]_vars

\* C7: a grow request myrealloc(old, new_size) that returns NULL leaves the
\* header of old, the free list, nused and both block counters as they were.
HeapCountersKept ==
    /\ nused' = nused
    /\ num_usedblocks' = num_usedblocks
    /\ num_freeblocks' = num_freeblocks
FreeListKept ==
    /\ first_free' = first_free
    /\ ListFrom(Cur', first_free', arena_words + 1) = FreeList
    /\ \A b \in Range(FreeList) :
           /\ rd(Cur', PrevOf(b)) = rd(Cur, PrevOf(b))
           /\ rd(Cur', PayloadOf(b)) = rd(Cur, PayloadOf(b))
FailedGrowKeepsState ==
    (/\ op'.name = "myrealloc" /\ status' = "ok"
     /\ op'.ptr \in DOMAIN live /\ op'.size > 0 /\ ret' = NULL
     /\ UGt(Needed(op'.size), get_size(Cur, get_header(op'.ptr))))
        => /\ rd(Cur', get_header(op'.ptr)) = rd(Cur, get_header(op'.ptr))
           /\ HeapCountersKept
           /\ FreeListKept
C7_FailedGrowNoEffect == [][FailedGrowKeepsState]_vars

\* C8: a mymalloc that returns NULL changes no block header, nor the free
\* list, nor nused, nor the block counters.
FailedMallocKeepsState ==
    (op'.name = "mymalloc" /\ status' = "ok" /\ ret' = NULL)
        => /\ mem' = mem
           /\ first_free' = first_free
           /\ HeapCountersKept
C8_FailedAllocateNoEffect == [][FailedMallocKeepsState]_vars
\* a request that passed the size checks and the fast rejection found no block
C8_Witness ==
    /\ Returned /\ op.name = "mymalloc" /\ ret = NULL
    /\ op.size > 0 /\ op.size <= max_request_size
    /\ ULe(Needed(op.size) + nused, segment_size)
    /\ DOMAIN live # {}

\* C9: a walk of the segment finds num_usedblocks allocated blocks and
\* num_freeblocks free ones.
C9_Counters ==
    Returned => /\ Cardinality(UsedBlocks) = num_usedblocks
                /\ Cardinality(FreeBlocks) = num_freeblocks

\* C10: the walk from segment_start ends at segment_end exactly, and every
\* block's payload size is at least the minimum of the variant.
C10_Coverage ==
    Returned => /\ WalkEnd = segment_end
                /\ \A b \in Range(Blocks) : UGe(get_size(Cur, b), variant_min)

\* the bytes the free blocks standing right of address b give when merged:
\* payloads and headers of the run of free blocks that starts at b
RECURSIVE FreeRunFrom(_, _, _)
FreeRunFrom(h, b, fuel) ==
    IF fuel = 0 \/ ~ULt(b, segment_end) \/ ~Valid(b) THEN 0
    ELSE IF is_malloc(h, b) THEN 0
    ELSE Then(b + get_size(h, b) + HEADER_SIZE, LAMBDA n :
         get_size(h, b) + HEADER_SIZE + FreeRunFrom(h, n, fuel - 1))
\* the payload the block of p can reach in place
RoomInPlace(p) ==
    get_size(Cur, get_header(p))
        + FreeRunFrom(Cur, p + get_size(Cur, get_header(p)), arena_words + 1)
\* a call myrealloc(p, R) on a live p, 0 < R <= MAX_REQUEST_SIZE, has returned
ReallocStep ==
    /\ op'.name = "myrealloc" /\ status' = "ok"
    /\ op'.ptr \in DOMAIN live
    /\ op'.size > 0 /\ op'.size <= max_request_size

\* C11: explicit.c: myrealloc(p, R) that asks for more than the block of p
\* holds returns p when the free blocks right of p, with their headers and
\* the payload of p, give at least N bytes, whatever the payload of p holds.
GrowsInPlace ==
    (/\ Explicit /\ ReallocStep
     /\ UGt(Needed(op'.size), get_size(Cur, get_header(op'.ptr)))
     /\ UGe(RoomInPlace(op'.ptr), Needed(op'.size)))
        => ret' = op'.ptr
C11_InPlaceGrow == [][GrowsInPlace]_vars

\* C12: myrealloc(old, new_size) on a live old with new_size > 0 and the
\* payload S of old at least N returns old; when S = N it changes nothing.
StaysInPlace ==
    (ReallocStep /\ UGe(get_size(Cur, get_header(op'.ptr)), Needed(op'.size)))
        => /\ ret' = op'.ptr
           /\ (get_size(Cur, get_header(op'.ptr)) = Needed(op'.size))
                  => (mem' = mem /\ first_free' = first_free /\ HeapCountersKept)
C12_ShrinkStaysInPlace == [][StaysInPlace]_vars

\* a call mymalloc(R) has returned a block
MallocStep == op'.name = "mymalloc" /\ status' = "ok" /\ ret' # NULL
\* the payload size in the header of the block just returned
GivenSize == get_size(Cur', get_header(ret'))

\* C13 as stated: after a successful mymalloc(R) the header of the returned
\* block records exactly N, the smallest multiple of ALIGNMENT that is at
\* least max(variant_min, R).  A block too small to split keeps its size
\* (split_block), so this fails in both files on the first such request.
RoundsExactly == MallocStep => GivenSize = Needed(op'.size)
RoundingExact == [][RoundsExactly]_vars

\* C13: after a successful mymalloc(R) the header of the returned block
\* records N, the smallest multiple of ALIGNMENT at least max(variant_min, R);
\* read with the split rule: a multiple of ALIGNMENT that is at least N and
\* exceeds N by less than a header and a minimum payload.
RoundsUpToSplit ==
    MallocStep => /\ GivenSize % ALIGNMENT = 0
                  /\ UGe(GivenSize, Needed(op'.size))
                  /\ ULt(GivenSize - Needed(op'.size), HEADER_SIZE + variant_min)
C13_Rounding == [][RoundsUpToSplit]_vars

\* C14: myrealloc(p, R) on a live p with R above MAX_REQUEST_SIZE returns
\* NULL, whatever the size of the block of p and whatever stands right of it.
RefusesAboveMax ==
    (/\ op'.name = "myrealloc" /\ status' = "ok"
     /\ op'.ptr \in DOMAIN live /\ op'.size > max_request_size)
        => ret' = NULL
C14_InvalidRealloc == [][RefusesAboveMax]_vars


\* the invariants a heap must satisfy after every public call: coverage,
\* alignment of the headers, size floor, counters, byte accounting, and in
\* explicit.c a sound free list
Aligned == \A b \in Range(Blocks) : b % ALIGNMENT = 0
HeapInvariants ==
    /\ WalkEnd = segment_end
    /\ Aligned
    /\ \A b \in Range(Blocks) : UGe(get_size(Cur, b), variant_min)
    /\ Cardinality(UsedBlocks) = num_usedblocks
    /\ Cardinality(FreeBlocks) = num_freeblocks
    /\ nused = AllocatedBytes /\ ULe(nused, segment_size)
    /\ Explicit => FreeListSound

\* C15: after every public call validate_heap() returns true exactly when the
\* heap invariants hold: it never returns true on a heap that breaks one.
C15_ValidatorExact ==
    Returned => /\ ValidateNow.h.status = "ok"
                /\ ValidateNow.ret <=> HeapInvariants
\* the half of C15 that forbids success on a broken heap
ValidatorSound ==
    (Returned /\ ValidateNow.h.status = "ok" /\ ValidateNow.ret) => HeapInvariants

\* what a call leaves of the allocator's own state when it changes none
AllocatorStateKept ==
    /\ mem' = mem /\ first_free' = first_free /\ HeapCountersKept
    /\ segment_start' = segment_start /\ segment_end' = segment_end
    /\ segment_size' = segment_size
\* the heap is one free block at base with payload size - HEADER_SIZE
FreshHeap(base, size) ==
    /\ segment_start = base /\ segment_end = base + size /\ segment_size = size
    /\ Blocks = <<base>> /\ WalkEnd = segment_end
    /\ ~is_malloc(Cur, base) /\ get_size(Cur, base) = size - HEADER_SIZE
    /\ nused = 0 /\ num_usedblocks = 0 /\ num_freeblocks = 1
    /\ Explicit => /\ first_free = base
                   /\ rd(Cur, PrevOf(base)) = NULL
                   /\ rd(Cur, NextOf(base)) = NULL
\* the heap is the fresh one of the myinit call that has just returned
FreshAfterInit == FreshHeap(op.ptr, op.size)

\* C16: myinit(base, size) returns false and changes nothing exactly when
\* size < HEADER_SIZE + the minimum payload of the variant; otherwise, whatever
\* the state before, it returns true and leaves one free block at base of
\* payload size - HEADER_SIZE, zeroed counters with num_freeblocks = 1, and in
\* explicit.c first_free at that block with null prev and next.
InitRule ==
    (op'.name = "myinit" /\ status' = "ok")
        => IF op'.size < HEADER_SIZE + variant_min
           THEN ret' = B2I(FALSE) /\ AllocatorStateKept
           ELSE ret' = B2I(TRUE) /\ FreshAfterInit'
C16_Init == [][InitRule]_vars
\* a myinit with too small a size has just failed on a heap that an earlier
\* myinit had reset over the words of earlier allocations
C16_Witness ==
    /\ Returned /\ op.name = "myinit" /\ ret = B2I(FALSE)
    /\ op.size < HEADER_SIZE + variant_min
    /\ FreshHeap(segment_start, segment_size)
    /\ \E w \in 3..(MaxHeapWords - 1) : mem[w] # 0

\* C17: every call of mymalloc, myfree, myrealloc and validate_heap returns:
\* no walk of the free list and no coalescing loop runs without end.
C17_Termination == status # "hang"

\* the free blocks of the segment whose payload holds n bytes
Fitting(n) == {b \in FreeBlocks : UGe(get_size(Cur, b), n)}
\* a mymalloc of a size it accepts has returned
SizedMallocStep ==
    /\ op'.name = "mymalloc" /\ status' = "ok"
    /\ op'.size > 0 /\ op'.size <= max_request_size

\* C18: mymalloc(R) with 0 < R <= MAX_REQUEST_SIZE returns NULL only when no
\* free block of the segment has a payload of N bytes or more; the test
\* N + nused > segment_size refuses no request that a free block could hold.
FailsOnlyWithoutFit ==
    (SizedMallocStep /\ ret' = NULL) => Fitting(Needed(op'.size)) = {}
C18_AllocateComplete == [][FailsOnlyWithoutFit]_vars

\* the lowest address of a set of blocks, NULL if there is none
Lowest(S) == IF S = {} THEN NULL ELSE CHOOSE b \in S : \A c \in S : b <= c
\* the node of list L nearest its head whose payload holds n bytes
FirstInList(L, n) ==
    Then({i \in DOMAIN L : UGe(get_size(Cur, L[i]), n)}, LAMBDA I :
         IF I = {} THEN NULL ELSE L[CHOOSE i \in I : \A j \in I : i <= j])
\* the block first fit takes for n bytes: by address in implicit.c, by place
\* on the free list in explicit.c
FirstFit(n) == IF Explicit THEN FirstInList(FreeList, n) ELSE Lowest(Fitting(n))

\* C19: a mymalloc(R) that succeeds takes the first free block with a payload
\* of N bytes or more: the one of lowest address in implicit.c, the one
\* nearest the head of the free list in explicit.c.
TakesFirstFit ==
    (SizedMallocStep /\ ret' # NULL)
        => /\ get_header(ret') \in FreeBlocks
           /\ get_header(ret') = FirstFit(Needed(op'.size))
C19_FirstFit == [][TakesFirstFit]_vars

\* a block of payload S cut to n leaves room for a header and a minimum payload
SplitDue(S, n) == UGe(S - n, HEADER_SIZE + variant_min)
\* after the call the block at a has payload n and is followed by a free block
\* of payload S - n - HEADER_SIZE at a + HEADER_SIZE + n
SplitAt(a, S, n) ==
    /\ get_size(Cur', a) = n
    /\ Valid(a + HEADER_SIZE + n)
    /\ rd(Cur', a + HEADER_SIZE + n) = S - n - HEADER_SIZE
\* mymalloc cuts the free block it takes: split adds a free block and taking
\* the block removes one
MallocSplitRule ==
    (SizedMallocStep /\ ret' # NULL)
        => \E a \in {get_header(ret')} : \E S \in {get_size(Cur, a)} :
           \E n \in {Needed(op'.size)} :
             IF SplitDue(S, n)
                THEN SplitAt(a, S, n) /\ num_freeblocks' = num_freeblocks
                ELSE get_size(Cur', a) = S /\ num_freeblocks' = num_freeblocks - 1
\* myrealloc of explicit.c cuts the block of old_ptr where it stands
ShrinkSplitRule ==
    (Explicit /\ ReallocStep
       /\ UGt(get_size(Cur, get_header(op'.ptr)), Needed(op'.size)))
        => \E a \in {get_header(op'.ptr)} : \E S \in {get_size(Cur, a)} :
           \E n \in {Needed(op'.size)} :
             /\ is_malloc(Cur', a) = is_malloc(Cur, a)
             /\ IF SplitDue(S, n)
                THEN SplitAt(a, S, n) /\ num_freeblocks' = num_freeblocks + 1
                ELSE mem' = mem /\ first_free' = first_free /\ HeapCountersKept

\* C20: a block of payload S at a that mymalloc or a shrinking myrealloc cuts
\* to N is split exactly when S - N >= HEADER_SIZE + the minimum payload of
\* the variant. Split: a free block of payload S - N - HEADER_SIZE stands at
\* a + HEADER_SIZE + N, the block at a has payload N, a shrinking myrealloc
\* keeps its allocation bit, and split_block has added one to num_freeblocks.
\* Not split: the block keeps payload S and split_block changes nothing.
C20_SplitRule == [][MallocSplitRule /\ ShrinkSplitRule]_vars

\* the free blocks of heap h standing one behind the other from address b on
RECURSIVE FreeRunBlocks(_, _, _)
FreeRunBlocks(h, b, fuel) ==
    IF fuel = 0 \/ ~ULt(b, segment_end) \/ ~Valid(b) THEN {}
    ELSE IF is_malloc(h, b) THEN {}
    ELSE Then(b + get_size(h, b) + HEADER_SIZE, LAMBDA n :
         {b} \cup FreeRunBlocks(h, n, fuel - 1))
\* the free blocks that stand right of the block of ptr before the call
RightRun(ptr) ==
    FreeRunBlocks(Cur, ptr + get_size(Cur, get_header(ptr)), arena_words + 1)
\* the address behind the block at a in the heap the call leaves
RightAfter(a) == a + get_size(Cur', a) + HEADER_SIZE
\* explicit.c: a myfree of a live pointer has returned
FreeStep ==
    /\ Explicit /\ op'.name = "myfree" /\ status' = "ok"
    /\ op'.ptr \in DOMAIN live

\* C21: explicit.c: when myfree(p) returns, the block of p is free and has
\* taken in every free block that stood behind it: what stands right of it is
\* segment_end or an allocated block; the blocks taken in are off the free
\* list and num_freeblocks has gone down by one for each of them.
AbsorbsRightRun ==
    FreeStep
        => \E a \in {get_header(op'.ptr)} : \E run \in {RightRun(op'.ptr)} :
             /\ ~is_malloc(Cur', a)
             /\ \/ RightAfter(a) = segment_end
                \/ /\ ULt(RightAfter(a), segment_end) /\ Valid(RightAfter(a))
                   /\ is_malloc(Cur', RightAfter(a))
             /\ run \cap Range(ListFrom(Cur', first_free', arena_words + 1)) = {}
             /\ num_freeblocks' = num_freeblocks + 1 - Cardinality(run)
C21_CoalesceOnFree == [][AbsorbsRightRun]_vars
====
